---- MODULE Spec2Model ----
(***************************************************************************)
(* Model of commands.py of iPixel-CLI: the command builders of a pixel     *)
(* matrix LED display.                                                     *)
(*                                                                         *)
(* Representation.                                                         *)
(*   bytes      a sequence of integers in 0..255                           *)
(*   hex string a sequence of character codes: 0..15 are the hex digits    *)
(*              '0'..'f', 16 is '-', 18 is 'x', 19 is '/', 17 stands for   *)
(*              any other character                                        *)
(*   result     [exc |-> "none", val |-> v] for a return of v,             *)
(*              [exc |-> <exception class>, val |-> <<>>] for a raise      *)
(***************************************************************************)
EXTENDS Integers, Sequences, FiniteSets, TLC

VARIABLES pkt, ctor, call, pre, ret, log, ncalls

vars == <<pkt, ctor, call, pre, ret, log, ncalls>>

----------------------------------------------------------------------------
(* Bounds of the model *)

\* calls made on one text_packet
MaxCalls == 2
\* calls made on one text_packet in the resolution sweep
MaxResCalls == 2
\* characters of a text
MaxTextLen == 2

----------------------------------------------------------------------------
(* Python primitives *)

Ok(v) == [exc |-> "none", val |-> v]

Raise(e) == [exc |-> e, val |-> <<>>]

RECURSIVE shift_bytes(_, _)
\* n >> (8 * width)
shift_bytes(n, width) ==
    IF width = 0 THEN n ELSE shift_bytes(n \div 256, width - 1)

RECURSIVE little_endian(_, _)
little_endian(n, width) ==
    IF width = 0 THEN <<>>
    ELSE <<n % 256>> \o little_endian(n \div 256, width - 1)

\* int.to_bytes(width, byteorder='little'); OverflowError when n does not fit
to_bytes(n, width) ==
    IF n < 0 \/ shift_bytes(n, width) # 0
    THEN Raise("OverflowError")
    ELSE Ok(little_endian(n, width))

\* int.from_bytes(b, 'little')
RECURSIVE from_bytes(_)
from_bytes(b) ==
    IF Len(b) = 0 THEN 0 ELSE b[1] + 256 * from_bytes(Tail(b))

\* bytearray([...]) / bytes([...]) accepts integers of range(256) only
IsByteList(s) == \A i \in 1..Len(s) : s[i] \in 0..255

\* the text is made of hex digits, two per byte
IsHex(s) == Len(s) % 2 = 0 /\ \A i \in 1..Len(s) : s[i] \in 0..15

\* bytes.fromhex(s) on a text that IsHex
fromhex(s) == [i \in 1..(Len(s) \div 2) |-> 16 * s[2 * i - 1] + s[2 * i]]

RECURSIVE Flatten(_)
\* b"".join(frames)
Flatten(ss) == IF Len(ss) = 0 THEN <<>> ELSE Head(ss) \o Flatten(Tail(ss))

RECURSIVE Digits(_, _)
\* the digits of n >= 0 in the given base, most significant first
Digits(n, base) ==
    IF n < base THEN <<n>> ELSE Digits(n \div base, base) \o <<n % base>>

\* a bitmap of n bytes
Bmp(n, fill) == [i \in 1..n |-> fill]

ffffff == <<15, 15, 15, 15, 15, 15>>

\* color=None
NoColor == <<17, 17, 17, 17>>

----------------------------------------------------------------------------
(* Utility functions *)

\* f"{n:02x}"
int_to_hex(n) ==
    IF n >= 0
    THEN (IF n < 16 THEN <<0>> ELSE <<>>) \o Digits(n, 16)
    ELSE <<16>> \o Digits(-n, 16)

\* f"{n:02}"
fmt02(n) ==
    IF n >= 0
    THEN (IF n < 10 THEN <<0>> ELSE <<>>) \o Digits(n, 10)
    ELSE <<16>> \o Digits(-n, 10)

\* the value of a decimal text
RECURSIVE DecValue(_)
DecValue(s) ==
    IF Len(s) = 0 THEN 0 ELSE 10 * DecValue(SubSeq(s, 1, Len(s) - 1)) + s[Len(s)]

IsDec(s) == Len(s) > 0 /\ \A i \in 1..Len(s) : s[i] \in 0..9

\* int(value) of a text: an optional '-' and decimal digits
to_int(value) ==
    IF IsDec(value) THEN Ok(DecValue(value))
    ELSE IF Len(value) > 1 /\ value[1] = 16 /\ IsDec(Tail(value))
         THEN Ok(-DecValue(Tail(value)))
    ELSE Raise("ValueError")

\* value.lower() of the texts tried
lower(value) ==
    CASE value = "True" -> "true"
      [] value = "YES" -> "yes"
      [] value = "No" -> "no"
      [] OTHER -> value

\* Python's True and False are written "<True>" and "<False>"
to_bool(value) ==
    IF value = "<True>" THEN Ok(TRUE)
    ELSE IF value = "<False>" THEN Ok(FALSE)
    ELSE IF lower(value) \in {"true", "1", "yes"} THEN Ok(TRUE)
    ELSE IF lower(value) \in {"false", "0", "no"} THEN Ok(FALSE)
    ELSE Raise("ValueError")

validate_range(value, min_val, max_val) == min_val <= value /\ value <= max_val

validate_list(value, valid_list) == value \in valid_list

----------------------------------------------------------------------------
(* Frames of the text packet *)

\* res2val_size: key "HHxWW" -> (discriminant, byte length)
res2val_size ==
    <<[key |-> <<1, 6, 18, 0, 8>>, val |-> 0, size |-> (16 * 8) \div 8],
      [key |-> <<1, 6, 18, 1, 6>>, val |-> 1, size |-> (16 * 16) \div 8],
      [key |-> <<3, 2, 18, 1, 6>>, val |-> 2, size |-> (32 * 16) \div 8],
      [key |-> <<3, 2, 18, 3, 2>>, val |-> 3, size |-> (32 * 32) \div 8],
      [key |-> <<4, 8, 18, 2, 4>>, val |-> 4, size |-> (48 * 24) \div 8],
      [key |-> <<4, 8, 18, 4, 8>>, val |-> 5, size |-> (48 * 48) \div 8],
      [key |-> <<6, 4, 18, 3, 2>>, val |-> 6, size |-> (64 * 32) \div 8],
      [key |-> <<6, 4, 18, 6, 4>>, val |-> 7, size |-> (64 * 64) \div 8]>>

res2val_keys == {res2val_size[i].key : i \in 1..Len(res2val_size)}

res2val_get(res) ==
    res2val_size[CHOOSE i \in 1..Len(res2val_size) : res2val_size[i].key = res]

\* text_bmp_frame without the check of the bitmap's length
text_bmp_frame_anysize(height, width, color_rgb, bmp_data) ==
    LET res == fmt02(height) \o <<18>> \o fmt02(width) IN
    IF ~validate_list(res, res2val_keys) THEN Raise("ValueError")
    ELSE IF ~IsHex(color_rgb) THEN Raise("ValueError")
    ELSE Ok(<<res2val_get(res).val>> \o fromhex(color_rgb) \o bmp_data)

text_bmp_frame(height, width, color_rgb, bmp_data) ==
    LET res == fmt02(height) \o <<18>> \o fmt02(width) IN
    IF ~validate_list(res, res2val_keys) THEN Raise("ValueError")
    ELSE IF ~validate_list(Len(bmp_data), {res2val_get(res).size})
         THEN Raise("ValueError")
    ELSE IF ~IsHex(color_rgb) THEN Raise("ValueError")
    ELSE Ok(<<res2val_get(res).val>> \o fromhex(color_rgb) \o bmp_data)

text_bmp_var_width_frame(height, width, color_rgb, bmp_data) ==
    IF ~validate_list(height, {16, 32, 24, 20, 12}) THEN Raise("ValueError")
    ELSE IF ~validate_list(Len(bmp_data), {height * ((width + 7) \div 8)})
         THEN Raise("ValueError")
    ELSE IF ~IsHex(color_rgb) THEN Raise("ValueError")
    ELSE IF ~IsByteList(<<width, height>>) THEN Raise("ValueError")
    ELSE Ok(<<128>> \o fromhex(color_rgb) \o <<width, height>> \o bmp_data)

width2val == (16 :> 8) @@ (32 :> 9) @@ (20 :> 12) @@ (24 :> 11) @@ (64 :> 10)

text_img_frame(res, jpg_data) ==
    IF ~validate_list(res, DOMAIN width2val) THEN Raise("ValueError")
    ELSE LET n == to_bytes(Len(jpg_data), 3) IN
         IF n.exc # "none" THEN n
         ELSE Ok(<<width2val[res]>> \o n.val \o jpg_data)

----------------------------------------------------------------------------
(* class text_packet *)

text_packet_init(led_type, animation, speed, color_mode, color, bg_color_mode, bg_color, halign, valign) ==
    [led_type |-> led_type, animation |-> animation, speed |-> speed,
     halign |-> halign, valign |-> valign, color_mode |-> color_mode,
     color |-> color, bg_color_mode |-> bg_color_mode, bg_color |-> color,
     char_frames |-> <<>>, render_call |-> "None"]

\* get_packet with the length of the joined frames written as the frame count
get_packet_bytecount(self) ==
    LET count == to_bytes(Len(Flatten(self.char_frames)), 2)
        props == <<self.halign, self.valign, self.animation, self.speed,
                   self.color_mode>>
    IN
    IF count.exc # "none" THEN count
    ELSE Ok(count.val \o props \o fromhex(self.color) \o <<self.bg_color_mode>>
            \o fromhex(self.bg_color) \o Flatten(self.char_frames))

get_packet(self) ==
    LET count == to_bytes(Len(self.char_frames), 2)
        props == <<self.halign, self.valign, self.animation, self.speed,
                   self.color_mode>>
    IN
    IF count.exc # "none" THEN count
    ELSE IF ~IsByteList(props) THEN Raise("ValueError")
    ELSE IF ~IsHex(self.color) THEN Raise("ValueError")
    ELSE IF ~IsByteList(<<self.bg_color_mode>>) THEN Raise("ValueError")
    ELSE IF ~IsHex(self.bg_color) THEN Raise("ValueError")
    ELSE Ok(count.val \o props \o fromhex(self.color) \o <<self.bg_color_mode>>
            \o fromhex(self.bg_color) \o Flatten(self.char_frames))

set_renderer(self, render_call) == [self EXCEPT !.render_call = render_call]

\* color = color if len(color)==6 else "".join(["%c%c"%(c,c) for c in list(color)])
expand_color(color) ==
    LET c == IF color = NoColor THEN ffffff ELSE color IN
    IF Len(c) = 6 THEN c ELSE [i \in 1..(2 * Len(c)) |-> c[(i + 1) \div 2]]

\* a method's outcome: the exception it raised, if any, and the object after it
Done(self) == [exc |-> "none", self |-> self]

Fail(e, self) == [exc |-> e, self |-> self]

\* self.char_frames += [frame], frame being the result of a frame builder
append_frame(self, frame) ==
    IF frame.exc # "none" THEN Fail(frame.exc, self)
    ELSE Done([self EXCEPT !.char_frames = Append(@, frame.val)])

add_bmp(self, height, width, color, bmp) ==
    IF self.led_type = 0
    THEN append_frame(self, text_bmp_frame(height, ((width + 7) \div 8) * 8,
                                           expand_color(color), bmp))
    ELSE IF self.led_type = 1
    THEN append_frame(self, text_bmp_var_width_frame(height, width,
                                                     expand_color(color), bmp))
    ELSE Done(self)

\* `rendered` is what render_call returns for each character of the text, in
\* order: [exc, bmp, width]
RECURSIVE add_text_loop(_, _, _, _)
\* the loop goes on after the add_bmp of a character, r being its outcome
add_text_next(r, rendered, size, color) ==
    IF r.exc # "none" THEN r
    ELSE add_text_loop(r.self, Tail(rendered), size, color)

add_text_loop(self, rendered, size, color) ==
    IF Len(rendered) = 0 THEN Done(self)
    ELSE IF self.render_call = "None" THEN Fail("TypeError", self)
    ELSE IF Head(rendered).exc # "none" THEN Fail(Head(rendered).exc, self)
    ELSE add_text_next(add_bmp(self, size, Head(rendered).width, color,
                               Head(rendered).bmp),
                       rendered, size, color)

add_text(self, rendered, size, color) ==
    add_text_loop(self, rendered, size, expand_color(color))

\* add_img without the except clause
add_img_unguarded(self, size, file) ==
    IF file.exc # "none" THEN Fail(file.exc, self)
    ELSE append_frame(self, text_img_frame(size, file.data))

\* `file` is what open(filename).read() gives: [exc, data]
add_img(self, size, file) ==
    IF file.exc = "OSError" THEN Done(self)
    ELSE IF file.exc # "none" THEN Fail(file.exc, self)
    ELSE append_frame(self, text_img_frame(size, file.data))

----------------------------------------------------------------------------
(* One text_packet and the calls made on it *)

\* colours given to the constructor, 6 hex digits: "ffffff", "000000", "8fff34"
CtorColors == {ffffff, <<0, 0, 0, 0, 0, 0>>, <<8, 15, 15, 15, 3, 4>>}

\* what the renderer may hand back for one character drawn at the given size:
\* a bitmap of size bytes per 8 columns, one byte too many, or an exception
Glyph(size, width, extra) ==
    [exc |-> "none", width |-> width,
     bmp |-> Bmp(size * ((width + 7) \div 8) + extra, 165)]

GlyphError == [exc |-> "RenderError", width |-> 0, bmp |-> <<>>]

\* what open(filename).read() may give
FileError(e) == [exc |-> e, data |-> <<>>]

FileData(d) == [exc |-> "none", data |-> d]

NoFile == FileError("unused")

NoCall ==
    [op |-> "init", size |-> 0, width |-> 0, color |-> NoColor, bmp |-> <<>>,
     rendered |-> <<>>, file |-> NoFile, repeat |-> 0]

Init ==
    /\ \E led_type \in {0, 1}, color \in CtorColors, bg_color \in CtorColors :
         /\ ctor = [led_type |-> led_type, color |-> color,
                    bg_color |-> bg_color]
         /\ pkt = text_packet_init(led_type, 1, 80, 0, color, 2, bg_color, 0, 1)
    /\ call = NoCall
    /\ pre = pkt
    /\ ret = Ok(<<>>)
    /\ log = <<>>
    /\ ncalls = 0

\* the outcome r of a method call that returns None
Method(c, r, appended, cost) ==
    /\ call' = c
    /\ pre' = pkt
    /\ pkt' = r.self
    /\ ret' = IF r.exc = "none" THEN Ok(<<>>) ELSE Raise(r.exc)
    /\ log' = log \o appended
    /\ ncalls' = ncalls + cost
    /\ UNCHANGED ctor

AddBmpCall(height, width, color, bmp) ==
    LET r == add_bmp(pkt, height, width, color, bmp) IN
    Method([NoCall EXCEPT !.op = "add_bmp", !.size = height, !.width = width,
                          !.color = color, !.bmp = bmp],
           r,
           IF r.exc = "none" /\ pkt.led_type \in {0, 1} THEN <<bmp>> ELSE <<>>,
           1)

AddBmp ==
    /\ ncalls < MaxCalls
    /\ \E height \in {16, 20}, width \in {8, 12}, n \in {16, 32},
          color \in {<<0, 15, 0>>, NoColor} :
         AddBmpCall(height, width, color, Bmp(n, 90))

\* the renderer's answers for the texts tried, character by character
Texts ==
    LET a == Glyph(16, 8, 0)
        b == Glyph(16, 12, 0)
        x == Glyph(16, 8, 1)
        e == GlyphError
    IN {<<>>, <<a>>, <<x>>, <<a, b>>, <<b, x>>, <<a, e>>, <<a, b, a>>,
        <<b, a, x>>}

AddText ==
    /\ ncalls < MaxCalls
    /\ \E rendered \in Texts, color \in {ffffff} :
         LET r == add_text(pkt, rendered, 16, color)
             k == Len(r.self.char_frames) - Len(pkt.char_frames)
         IN Method([NoCall EXCEPT !.op = "add_text", !.size = 16,
                                  !.color = color, !.rendered = rendered],
                   r, [i \in 1..k |-> rendered[i].bmp], 1)

AddImg ==
    /\ ncalls < MaxCalls
    /\ \E size \in {16, 17, 24},
          file \in {FileError("OSError"), FileError("TypeError"),
                    FileData(<<255, 216, 255>>)} :
         LET r == add_img(pkt, size, file) IN
         Method([NoCall EXCEPT !.op = "add_img", !.size = size, !.file = file],
                r,
                IF r.exc = "none" /\ file.exc = "none" THEN <<file.data>>
                ELSE <<>>,
                1)

SetRenderer ==
    /\ pkt.render_call = "None"
    /\ Method([NoCall EXCEPT !.op = "set_renderer"],
              Done(set_renderer(pkt, "char2bytes")), <<>>, 0)

\* get_packet that hands the frames over and empties the list
GetPacket_drain ==
    /\ call.repeat < 2
    /\ call' = [NoCall EXCEPT !.op = "get_packet",
                              !.repeat = IF call.op = "get_packet"
                                         THEN call.repeat + 1 ELSE 1]
    /\ pre' = pkt
    /\ ret' = get_packet(pkt)
    /\ pkt' = [pkt EXCEPT !.char_frames = <<>>]
    /\ UNCHANGED <<ctor, log, ncalls>>

GetPacket ==
    /\ call.repeat < 2
    /\ call' = [NoCall EXCEPT !.op = "get_packet",
                              !.repeat = IF call.op = "get_packet"
                                         THEN call.repeat + 1 ELSE 1]
    /\ pre' = pkt
    /\ ret' = get_packet(pkt)
    /\ UNCHANGED <<pkt, ctor, log, ncalls>>

Next == AddBmp \/ AddText \/ AddImg \/ SetRenderer \/ GetPacket

Spec == Init /\ [][Next]_vars

----------------------------------------------------------------------------
(* Reading a serialized packet back *)

\* byte length of the bitmap of a fixed-resolution frame, by discriminant
FixedSize(d) == res2val_size[d + 1].size

\* the payloads of the frames laid end to end in b, first to last; ok is
\* FALSE when b is not a whole number of frames
RECURSIVE ParseFrames(_)
ParseFrames(b) ==
    IF Len(b) = 0 THEN [ok |-> TRUE, frames |-> <<>>]
    ELSE IF Len(b) < 4 THEN [ok |-> FALSE, frames |-> <<>>]
    ELSE LET d == b[1]
             hdr == IF d = 128 THEN 6 ELSE 4
             n == IF d \in 0..7 THEN FixedSize(d)
                  ELSE IF d = 128 /\ Len(b) >= 6
                       THEN b[6] * ((b[5] + 7) \div 8)
                  ELSE IF d \in 8..12 THEN from_bytes(SubSeq(b, 2, 4))
                  ELSE Len(b)
         IN IF hdr + n > Len(b) THEN [ok |-> FALSE, frames |-> <<>>]
            ELSE LET rest == ParseFrames(SubSeq(b, hdr + n + 1, Len(b))) IN
                 [ok |-> rest.ok,
                  frames |-> <<SubSeq(b, hdr + 1, hdr + n)>> \o rest.frames]

----------------------------------------------------------------------------
(* Claims on the text packet, under Spec *)

\* C1: after any calls of add_bmp, add_text and add_img, raising ones
\* included, get_packet() gives a 14-byte properties header whose first two
\* bytes, little-endian, count the frames that follow it, and these frames are
\* the appended ones in the order of their appending.
C1_FrameCountAndOrder ==
    LET out == get_packet(pkt) IN
    /\ out.exc = "none"
    /\ Len(out.val) >= 14
    /\ LET p == ParseFrames(SubSeq(out.val, 15, Len(out.val))) IN
       /\ p.ok
       /\ from_bytes(SubSeq(out.val, 1, 2)) = Len(p.frames)
       /\ p.frames = log

C1_Witness ==
    /\ Len(log) >= 3
    /\ log[1] # log[2]
    /\ ret.exc # "none"
    /\ \E i \in 1..Len(pkt.char_frames) : pkt.char_frames[i][1] \in 8..12

\* C2: get_packet() changes neither the frame list nor any field of the
\* packet, and a second call right after the first returns the same bytes.
C2_GetPacketPure ==
    [][call'.op = "get_packet" =>
         /\ pkt' = pkt
         /\ (call.op = "get_packet" => ret' = ret)]_vars

C2_Witness ==
    /\ call.op = "get_packet"
    /\ call.repeat = 2
    /\ ret.exc = "none"
    /\ Len(pkt.char_frames) >= 2

\* C4: in the header of get_packet(), bytes 8..10 are the color and bytes
\* 12..14 the bg_color the packet was constructed with.
C4_BgColorInHeader ==
    LET out == get_packet(pkt) IN
    out.exc = "none" =>
        /\ SubSeq(out.val, 8, 10) = fromhex(ctor.color)
        /\ SubSeq(out.val, 12, 14) = fromhex(ctor.bg_color)

\* C8: add_text appends len(text) frames, or fails and leaves the frame list
\* as it was before the call.
C8_AddTextAllOrNothing ==
    call.op = "add_text" =>
        IF ret.exc = "none"
        THEN Len(pkt.char_frames) = Len(pre.char_frames) + Len(call.rendered)
        ELSE pkt.char_frames = pre.char_frames

\* C9: add_img on a file that cannot be opened or read returns without
\* raising and leaves the packet as it was.
C9_AddImgUnreadable ==
    call.op = "add_img" /\ call.file.exc = "OSError" =>
        /\ ret.exc = "none"
        /\ pkt = pre

C9_Witness ==
    /\ call.op = "add_img"
    /\ call.file.exc = "OSError"
    /\ call.size = 17
    /\ Len(pre.char_frames) >= 1

----------------------------------------------------------------------------
(* add_bmp over the resolutions, under SpecRes *)

ResHeights == {16, 24, 32, 48, 64}

ResWidths == {1, 8, 9, 16, 24, 25, 32, 48, 64, 65}

\* bitmap lengths tried for a height and a width: the bytes of the width
\* rounded up to whole bytes, one less, one more, and 32
ResLens(height, width) ==
    LET n == height * ((width + 7) \div 8) IN {n - 1, n, n + 1, 32}

AddBmpRes ==
    /\ ncalls < MaxResCalls
    /\ \E height \in ResHeights, width \in ResWidths :
         \E n \in ResLens(height, width), color \in {<<0, 15, 0>>} :
           AddBmpCall(height, width, color, Bmp(n, 60))

\* text_packet(led_type=...) with the defaults of the other parameters
InitRes ==
    /\ \E led_type \in {0, 1} :
         /\ ctor = [led_type |-> led_type, color |-> ffffff,
                    bg_color |-> <<0, 0, 0, 0, 0, 0>>]
         /\ pkt = text_packet_init(led_type, 0, 80, 0, ctor.color, 0,
                                   ctor.bg_color, 0, 0)
    /\ call = NoCall
    /\ pre = pkt
    /\ ret = Ok(<<>>)
    /\ log = <<>>
    /\ ncalls = 0

NextRes == AddBmpRes

SpecRes == InitRes /\ [][NextRes]_vars

\* the resolutions of a fixed bitmap frame: height, width, byte length
FixedResolutions ==
    {<<16, 8, 16>>, <<16, 16, 32>>, <<32, 16, 64>>, <<32, 32, 128>>,
     <<48, 24, 144>>, <<48, 48, 288>>, <<64, 32, 256>>, <<64, 64, 512>>}

\* C3: on a panel of type 0, add_bmp appends one frame if (height, width
\* rounded up to a multiple of 8, len(bitmap)) is one of the eight fixed
\* resolutions, and otherwise fails and leaves the frame list unchanged.
C3_FixedResolutionOnly ==
    call.op = "add_bmp" /\ pre.led_type = 0 =>
        LET w8 == CHOOSE w \in call.width..(call.width + 7) :
                      w % 8 = 0 /\ w >= call.width
        IN IF <<call.size, w8, Len(call.bmp)>> \in FixedResolutions
           THEN /\ ret.exc = "none"
                /\ Len(pkt.char_frames) = Len(pre.char_frames) + 1
                /\ SubSeq(pkt.char_frames, 1, Len(pre.char_frames))
                     = pre.char_frames
                /\ ParseFrames(pkt.char_frames[Len(pkt.char_frames)])
                     = [ok |-> TRUE, frames |-> <<call.bmp>>]
           ELSE /\ ret.exc # "none"
                /\ pkt.char_frames = pre.char_frames

C3_Witness ==
    /\ call.op = "add_bmp"
    /\ pre.led_type = 0
    /\ call.size = 48
    /\ call.width = 24
    /\ Len(call.bmp) = 144
    /\ Len(pkt.char_frames) = Len(pre.char_frames) + 1

----------------------------------------------------------------------------
(* The calendar of datetime.datetime *)

is_leap(year) == year % 4 = 0 /\ (year % 100 # 0 \/ year % 400 = 0)

days_in_month(year, month) ==
    IF month = 2 THEN (IF is_leap(year) THEN 29 ELSE 28)
    ELSE IF month \in {4, 6, 9, 11} THEN 30 ELSE 31

RECURSIVE days_before_month(_, _)
days_before_month(year, month) ==
    IF month = 1 THEN 0
    ELSE days_before_month(year, month - 1) + days_in_month(year, month - 1)

days_before_year(year) ==
    LET y == year - 1 IN y * 365 + y \div 4 - y \div 100 + y \div 400

\* datetime.datetime(year, month, day) raises ValueError outside of these
datetime_ok(year, month, day) ==
    /\ year \in 1..9999
    /\ month \in 1..12
    /\ day \in 1..days_in_month(year, month)

\* datetime.datetime(year, month, day).weekday(): Monday is 0
weekday(year, month, day) ==
    (days_before_year(year) + days_before_month(year, month) + day + 6) % 7

----------------------------------------------------------------------------
(* Commands *)

\* bytes.fromhex(h) of any text
HexBytes(h) == IF IsHex(h) THEN Ok(fromhex(h)) ELSE Raise("ValueError")

\* text.split(sep)
RECURSIVE split(_, _)
split(s, sep) ==
    IF \A i \in 1..Len(s) : s[i] # sep THEN <<s>>
    ELSE LET k == CHOOSE i \in 1..Len(s) :
                      s[i] = sep /\ \A j \in 1..(i - 1) : s[j] # sep
         IN <<SubSeq(s, 1, k - 1)>> \o split(SubSeq(s, k + 1, Len(s)), sep)

\* `now` is datetime.datetime.now(): [year, month, day, hour, minute, second]
set_clock_mode(style, date, show_date, format_24, now) ==
    LET st == to_int(style)
        sd == to_bool(show_date)
        f24 == to_bool(format_24)
        parts == split(date, 19)
        ints == [i \in 1..Len(parts) |-> to_int(parts[i])]
        parsed == /\ Len(parts) = 3
                  /\ \A i \in 1..3 : ints[i].exc = "none"
                  /\ datetime_ok(ints[3].val, ints[2].val, ints[1].val)
        day == IF Len(date) = 0 THEN now.day ELSE ints[1].val
        month == IF Len(date) = 0 THEN now.month ELSE ints[2].val
        year == IF Len(date) = 0 THEN now.year % 100 ELSE ints[3].val
        day_of_week ==
            IF Len(date) = 0 THEN weekday(now.year, now.month, now.day) + 1
            ELSE weekday(year, month, day) + 1
    IN
    IF st.exc # "none" THEN st
    ELSE IF sd.exc # "none" THEN sd
    ELSE IF f24.exc # "none" THEN f24
    ELSE IF Len(date) # 0 /\ ~parsed THEN Raise("ValueError")
    ELSE IF ~validate_range(st.val, 0, 8) THEN Raise("ValueError")
    ELSE IF ~validate_range(day_of_week, 1, 7) THEN Raise("ValueError")
    ELSE IF ~validate_range(month, 1, 12) THEN Raise("ValueError")
    ELSE IF ~validate_range(day, 1, 31) THEN Raise("ValueError")
    ELSE IF ~validate_range(year, 0, 99) THEN Raise("ValueError")
    ELSE LET params == HexBytes(int_to_hex(st.val)
                                \o (IF f24.val THEN <<0, 1>> ELSE <<0, 0>>)
                                \o (IF sd.val THEN <<0, 1>> ELSE <<0, 0>>))
             date_bytes == HexBytes(int_to_hex(year) \o int_to_hex(month)
                                    \o int_to_hex(day)
                                    \o int_to_hex(day_of_week))
         IN IF params.exc # "none" THEN params
            ELSE IF date_bytes.exc # "none" THEN date_bytes
            ELSE Ok(<<11, 0, 6, 1>> \o params.val \o date_bytes.val)

\* "".join(int_to_hex(to_int(l)) for l in levels)
RECURSIVE levels_hex(_)
levels_hex(levels) ==
    IF Len(levels) = 0 THEN <<>>
    ELSE int_to_hex(to_int(Head(levels)).val) \o levels_hex(Tail(levels))

\* the for loop over the levels: the first that fails, if any
RECURSIVE levels_check(_)
levels_check(levels) ==
    IF Len(levels) = 0 THEN Ok(<<>>)
    ELSE LET l == to_int(Head(levels)) IN
         IF l.exc # "none" THEN l
         ELSE IF ~(0 <= l.val /\ l.val <= 15) THEN Raise("ValueError")
         ELSE levels_check(Tail(levels))

\* levels is <<l1, ..., l11>>
set_rhythm_mode(style, levels) ==
    LET st == to_int(style) IN
    IF st.exc # "none" THEN st
    ELSE IF ~validate_range(st.val, 0, 4) THEN Raise("ValueError")
    ELSE IF levels_check(levels).exc # "none" THEN levels_check(levels)
    ELSE LET a == HexBytes(int_to_hex(st.val))
             b == HexBytes(levels_hex(levels))
         IN IF a.exc # "none" THEN a
            ELSE IF b.exc # "none" THEN b
            ELSE Ok(<<16, 0, 1, 2>> \o a.val \o b.val)

set_rhythm_mode_2(style, t) ==
    LET st == to_int(style)
        tt == to_int(t)
    IN
    IF st.exc # "none" THEN st
    ELSE IF ~validate_range(st.val, 0, 1) THEN Raise("ValueError")
    ELSE IF tt.exc # "none" THEN tt
    ELSE IF ~validate_range(tt.val, 0, 7) THEN Raise("ValueError")
    ELSE LET a == HexBytes(int_to_hex(st.val)) IN
         IF ~IsByteList(<<tt.val>>) THEN Raise("ValueError")
         ELSE IF a.exc # "none" THEN a
         ELSE Ok(<<6, 0, 0, 2>> \o <<tt.val>> \o a.val)

\* hour=None, minute=None, second=None
NoArg == <<17, 17, 17, 17>>

set_time(hour, minute, second, now) ==
    LET unset == hour = NoArg \/ minute = NoArg \/ second = NoArg
        h == IF unset THEN Ok(now.hour) ELSE to_int(hour)
        m == IF unset THEN Ok(now.minute) ELSE to_int(minute)
        sec == IF unset THEN Ok(now.second) ELSE to_int(second)
    IN
    IF h.exc # "none" THEN h
    ELSE IF m.exc # "none" THEN m
    ELSE IF sec.exc # "none" THEN sec
    ELSE IF ~validate_range(h.val, 0, 23) THEN Raise("ValueError")
    ELSE IF ~validate_range(m.val, 0, 59) THEN Raise("ValueError")
    ELSE IF ~validate_range(sec.val, 0, 59) THEN Raise("ValueError")
    ELSE IF ~IsByteList(<<h.val, m.val, sec.val>>) THEN Raise("ValueError")
    ELSE Ok(<<8, 0, 1, 128>> \o <<h.val, m.val, sec.val>> \o <<0>>)

set_fun_mode(value) ==
    LET v == to_bool(value) IN
    IF v.exc # "none" THEN v
    ELSE Ok(<<5, 0, 4, 1>> \o (IF v.val THEN <<1>> ELSE <<0>>))

set_orientation(orientation) ==
    LET o == to_int(orientation) IN
    IF o.exc # "none" THEN o
    ELSE IF ~validate_range(o.val, 0, 3) THEN Raise("ValueError")
    ELSE LET a == HexBytes(int_to_hex(o.val)) IN
         IF a.exc # "none" THEN a ELSE Ok(<<5, 0, 6, 128>> \o a.val)

clear == Ok(<<4, 0, 3, 128>>)

set_brightness(value) ==
    LET v == to_int(value) IN
    IF v.exc # "none" THEN v
    ELSE IF ~validate_range(v.val, 0, 100) THEN Raise("ValueError")
    ELSE LET a == HexBytes(int_to_hex(v.val)) IN
         IF a.exc # "none" THEN a ELSE Ok(<<5, 0, 4, 128>> \o a.val)

set_speed(value) ==
    LET v == to_int(value) IN
    IF v.exc # "none" THEN v
    ELSE IF ~validate_range(v.val, 0, 100) THEN Raise("ValueError")
    ELSE LET a == HexBytes(int_to_hex(v.val)) IN
         IF a.exc # "none" THEN a ELSE Ok(<<5, 0, 3>> \o a.val)

set_pixel(x, y, color) ==
    LET xx == to_int(x)
        yy == to_int(y)
    IN
    IF xx.exc # "none" THEN xx
    ELSE IF yy.exc # "none" THEN yy
    ELSE LET c == HexBytes(color)
             xy == HexBytes(int_to_hex(xx.val) \o int_to_hex(yy.val))
         IN IF c.exc # "none" THEN c
            ELSE IF xy.exc # "none" THEN xy
            ELSE Ok(<<10, 0, 5, 1, 0>> \o c.val \o xy.val)

led_off == Ok(<<5, 0, 7, 1, 0>>)

led_on == Ok(<<5, 0, 7, 1, 1>>)

delete_screen(n) ==
    LET i == to_int(n) IN
    IF i.exc # "none" THEN i
    ELSE LET a == HexBytes(int_to_hex(i.val)) IN
         IF a.exc # "none" THEN a ELSE Ok(<<7, 0, 2, 1, 1, 0>> \o a.val)

----------------------------------------------------------------------------
(* bit_tools: the transforms of a glyph's hex text, and the checksums *)

\* the bytes of a hex text in reverse order
switch_endian(h) ==
    [i \in 1..Len(h) |->
        LET byte == (Len(h) \div 2) - ((i + 1) \div 2) IN
        IF i > 2 * (Len(h) \div 2) THEN h[i] ELSE h[2 * byte + 2 - (i % 2)]]

\* every bit of a hex text inverted
invert_frames(h) == [i \in 1..Len(h) |-> 15 - h[i]]

\* the four bits of a hex digit in reverse order
rev4(n) == 8 * (n % 2) + 4 * ((n \div 2) % 2) + 2 * ((n \div 4) % 2) + n \div 8

\* the bits of every byte of a hex text in reverse order
logic_reverse_bits_order(h) ==
    [i \in 1..Len(h) |->
        IF i > 2 * (Len(h) \div 2) THEN rev4(h[i])
        ELSE IF i % 2 = 1 THEN rev4(h[i + 1]) ELSE rev4(h[i - 1])]

----------------------------------------------------------------------------
(* The legacy text command *)

HEADER_1_MG == 29

HEADER_3_MG == 14

\* hex(n)[2:].zfill(4)
hex4(n) ==
    LET d == Digits(n, 16) IN
    IF Len(d) >= 4 THEN d ELSE [i \in 1..(4 - Len(d)) |-> 0] \o d

\* `rastered` is what char_to_hex returns for each character of the text, in
\* order: [exc, hex, width]
RECURSIVE encode_text(_, _, _)
encode_text(rastered, matrix_height, color) ==
    IF Len(rastered) = 0 THEN Ok(<<>>)
    ELSE LET g == Head(rastered)
             char_hex_converted ==
                 logic_reverse_bits_order(switch_endian(invert_frames(g.hex)))
             rest == encode_text(Tail(rastered), matrix_height, color)
         IN IF g.exc # "none" THEN Raise(g.exc)
            ELSE IF rest.exc # "none" THEN rest
            ELSE IF Len(g.hex) # 0
                 THEN Ok(<<8, 0>> \o color \o int_to_hex(g.width)
                         \o int_to_hex(matrix_height) \o char_hex_converted
                         \o rest.val)
            ELSE rest

\* the first of the results that is a raise, or the last of them
RECURSIVE first_raise(_)
first_raise(rs) ==
    IF Len(rs) = 1 \/ Head(rs).exc # "none" THEN Head(rs)
    ELSE first_raise(Tail(rs))

\* send_text_args that lets every animation in 0..7 through
send_text_args_any_animation(a, n) ==
    LET rainbow_mode == to_int(a.rainbow_mode)
        animation == to_int(a.animation)
        save_slot == to_int(a.save_slot)
        speed == to_int(a.speed)
        matrix_height == to_int(a.matrix_height)
        conv == first_raise(<<rainbow_mode, animation, save_slot, speed,
                              matrix_height>>)
    IN
    IF conv.exc # "none" THEN conv
    ELSE IF ~validate_range(rainbow_mode.val, 0, 9) THEN Raise("ValueError")
    ELSE IF ~validate_range(animation.val, 0, 7) THEN Raise("ValueError")
    ELSE IF ~validate_range(save_slot.val, 1, 10) THEN Raise("ValueError")
    ELSE IF ~validate_range(speed.val, 0, 100) THEN Raise("ValueError")
    ELSE IF ~validate_range(n, 1, 100) THEN Raise("ValueError")
    ELSE IF ~validate_range(matrix_height.val, 1, 128) THEN Raise("ValueError")
    ELSE Ok([rainbow_mode |-> rainbow_mode.val, animation |-> animation.val,
             save_slot |-> save_slot.val, speed |-> speed.val,
             matrix_height |-> matrix_height.val])

\* send_text up to the animation check: the conversions and validations of
\* the arguments, numbers as decimal texts, n being len(text)
send_text_args(a, n) ==
    LET rainbow_mode == to_int(a.rainbow_mode)
        animation == to_int(a.animation)
        save_slot == to_int(a.save_slot)
        speed == to_int(a.speed)
        matrix_height == to_int(a.matrix_height)
        conv == first_raise(<<rainbow_mode, animation, save_slot, speed,
                              matrix_height>>)
    IN
    IF conv.exc # "none" THEN conv
    ELSE IF ~validate_range(rainbow_mode.val, 0, 9) THEN Raise("ValueError")
    ELSE IF ~validate_range(animation.val, 0, 7) THEN Raise("ValueError")
    ELSE IF ~validate_range(save_slot.val, 1, 10) THEN Raise("ValueError")
    ELSE IF ~validate_range(speed.val, 0, 100) THEN Raise("ValueError")
    ELSE IF ~validate_range(n, 1, 100) THEN Raise("ValueError")
    ELSE IF ~validate_range(matrix_height.val, 1, 128) THEN Raise("ValueError")
    ELSE IF animation.val = 3 \/ animation.val = 4 THEN Raise("ValueError")
    ELSE Ok([rainbow_mode |-> rainbow_mode.val, animation |-> animation.val,
             save_slot |-> save_slot.val, speed |-> speed.val,
             matrix_height |-> matrix_height.val])

\* the number of times encode_text calls char_to_hex: once for each
\* character, up to the first call that raises
RECURSIVE encode_text_calls(_)
encode_text_calls(rastered) ==
    IF Len(rastered) = 0 THEN 0
    ELSE IF Head(rastered).exc # "none" THEN 1
    ELSE 1 + encode_text_calls(Tail(rastered))

\* the number of times send_text has char_to_hex called: encode_text is
\* reached only when the arguments passed
send_text_calls(a, rastered) ==
    IF send_text_args(a, Len(rastered)).exc # "none" THEN 0
    ELSE encode_text_calls(rastered)

\* a: the arguments, numbers as decimal texts; len(a.text) is Len(rastered);
\* crc is what CRC32_checksum returns, 8 hex digits
send_text(a, rastered, crc) ==
    LET args == send_text_args(a, Len(rastered))
        n == Len(rastered)
    IN
    IF args.exc # "none" THEN args
    ELSE LET header_gap == 6 + args.val.matrix_height * 2
             header_1 == switch_endian(hex4(HEADER_1_MG + n * header_gap))
             header_2 == <<0, 0, 0, 1, 0, 0>>
             header_3 == switch_endian(hex4(HEADER_3_MG + n * header_gap))
             header_4 == <<0, 0, 0, 0>>
             header == header_1 \o header_2 \o header_3 \o header_4
             save_slot_hex == hex4(args.val.save_slot)
             number_of_characters == int_to_hex(n)
             properties == <<0, 0, 0, 1, 0, 1>>
                           \o int_to_hex(args.val.animation)
                           \o int_to_hex(args.val.speed)
                           \o int_to_hex(args.val.rainbow_mode)
                           \o <<15, 15, 15, 15, 15, 15, 0, 0, 0, 0, 0, 0, 0, 0>>
             characters == encode_text(rastered, args.val.matrix_height,
                                       a.color)
         IN IF characters.exc # "none" THEN characters
            ELSE HexBytes(header \o crc \o save_slot_hex
                          \o number_of_characters \o properties
                          \o characters.val)

----------------------------------------------------------------------------
(* The text packet command *)

\* update_packet_size that keeps the two bytes it should overwrite
update_packet_size_prepend(b) ==
    LET n == to_bytes(Len(b) + 2, 2) IN
    IF n.exc # "none" THEN n ELSE Ok(n.val \o b)

update_packet_size(b) ==
    LET n == to_bytes(Len(b), 2) IN
    IF n.exc # "none" THEN n ELSE Ok(n.val \o SubSeq(b, 3, Len(b)))

\* what char2bytes makes of the rasterizer's answer for one character
char2bytes(g) ==
    LET char_hex_converted ==
            logic_reverse_bits_order(switch_endian(invert_frames(g.hex)))
    IN IF g.exc # "none" THEN [exc |-> g.exc, width |-> 0, bmp |-> <<>>]
       ELSE IF ~IsHex(char_hex_converted)
            THEN [exc |-> "ValueError", width |-> 0, bmp |-> <<>>]
       ELSE [exc |-> "none", width |-> g.width,
             bmp |-> fromhex(char_hex_converted)]

minmax_width80 == {16, 12, 20, 24, 32}

minmax_width00 == {16, 32, 48, 64}

\* prop_char of send_text2_: the serialized packet, or the exception raised
\* on the way to it
\* pkt.get_packet() after pkt.add_text(...), added being add_text's outcome
get_packet_after(added) ==
    IF added.exc # "none" THEN Raise(added.exc) ELSE get_packet(added.self)

send_text2_prop_char(a, led_type, rastered) ==
    LET minmax_width == IF led_type = 0 THEN minmax_width00
                        ELSE minmax_width80
        pkt0 == text_packet_init(led_type, a.animation, a.speed,
                                 a.rainbow_mode, a.color, a.bg_color_mode,
                                 a.bg_color, a.halign, a.valign)
    IN IF a.matrix_height \notin minmax_width THEN Raise("KeyError")
       ELSE get_packet_after(
                add_text(set_renderer(pkt0, "char2bytes"),
                         [i \in 1..Len(rastered) |-> char2bytes(rastered[i])],
                         a.matrix_height, a.color))

\* header + prop_char of send_text2_, before the size is patched in; crc32
\* is what binascii.crc32 returns, an unsigned number that the mask leaves
\* as it is
send_text2_header(a, prop_char, crc32) ==
    LET checksum == to_bytes(crc32, 4)
        tsize == to_bytes(Len(prop_char.val) + 4 + 4 + 2, 4)
        slot == <<0, a.save_slot>>
    IN IF prop_char.exc # "none" THEN prop_char
       ELSE IF checksum.exc # "none" THEN checksum
       ELSE IF tsize.exc # "none" THEN tsize
       ELSE IF ~IsByteList(slot) THEN Raise("ValueError")
       ELSE Ok(<<255, 255, 0, 1, 0>> \o tsize.val \o checksum.val \o slot
               \o prop_char.val)

send_text2_unpatched(a, led_type, rastered, crc32) ==
    send_text2_header(a, send_text2_prop_char(a, led_type, rastered), crc32)

\* return update_packet_size(header + prop_char), b being header + prop_char
\* or the exception raised before
send_text2_return(b) ==
    IF b.exc # "none" THEN b ELSE update_packet_size(b.val)

send_text2_(a, led_type, rastered, crc32) ==
    send_text2_return(send_text2_unpatched(a, led_type, rastered, crc32))

\* the keyword arguments of send_text1 and send_text2 with the defaults of
\* send_text2_
Text2Defaults ==
    [animation |-> 0, save_slot |-> 101, speed |-> 80, halign |-> 0,
     valign |-> 0, rainbow_mode |-> 0, color |-> ffffff, bg_color_mode |-> 0,
     bg_color |-> <<0, 0, 0, 0, 0, 0>>, matrix_height |-> 16]

\* kwargs: animation, save_slot, speed and matrix_height as decimal texts,
\* color and bg_color as given
send_text_kwargs(kwargs, led_type, rastered, crc32) ==
    LET animation == to_int(kwargs.animation)
        save_slot == to_int(kwargs.save_slot)
        speed == to_int(kwargs.speed)
        matrix_height == to_int(kwargs.matrix_height)
        conv == first_raise(<<animation, save_slot, speed, matrix_height>>)
    IN IF conv.exc # "none" THEN conv
       ELSE send_text2_([Text2Defaults EXCEPT
                            !.animation = animation.val,
                            !.save_slot = save_slot.val,
                            !.speed = speed.val,
                            !.matrix_height = matrix_height.val,
                            !.color = kwargs.color,
                            !.bg_color = kwargs.bg_color],
                        led_type, rastered, crc32)

send_text1(kwargs, rastered, crc32) ==
    send_text_kwargs(kwargs, 1, rastered, crc32)

send_text2(kwargs, rastered, crc32) ==
    send_text_kwargs(kwargs, 0, rastered, crc32)

----------------------------------------------------------------------------
(* The command builders applied to the arguments drawn by InitCmd *)

\* a number as a decimal text
Dec(n) == IF n >= 0 THEN Digits(n, 10) ELSE <<16>> \o Digits(-n, 10)

\* "d/m/yy"
DateText(d, m, y) == Dec(d) \o <<19>> \o Dec(m) \o <<19>> \o fmt02(y)

CmdNow ==
    {[year |-> 2024, month |-> 6, day |-> 15, hour |-> 23, minute |-> 59,
      second |-> 58],
     [year |-> 2100, month |-> 1, day |-> 31, hour |-> 0, minute |-> 0,
      second |-> 0]}

ClockCalls ==
    {[op |-> "set_clock_mode", style |-> Dec(st), date |-> DateText(d, m, y),
      show_date |-> IF sd THEN "<True>" ELSE "No",
      format_24 |-> IF f24 THEN "1" ELSE "<False>",
      now |-> [year |-> 2024, month |-> 6, day |-> 15, hour |-> 23,
               minute |-> 59, second |-> 58],
      st |-> st, dmy |-> <<d, m, y>>, sd |-> sd, f24 |-> f24] :
        st \in {0, 8, 9}, d \in {0, 1, 15, 29, 30, 31, 32},
        m \in {1, 2, 6, 12, 13}, y \in {0, 1, 23, 24, 99, 100},
        sd \in BOOLEAN, f24 \in BOOLEAN}
    \cup
    {[op |-> "set_clock_mode", style |-> style, date |-> date,
      show_date |-> show_date, format_24 |-> "<True>", now |-> now,
      st |-> 0, dmy |-> <<>>, sd |-> TRUE, f24 |-> TRUE] :
        style \in {Dec(1), <<17>>}, show_date \in {"<True>", "maybe"},
        now \in CmdNow,
        date \in {<<>>, Dec(15) \o <<19>> \o Dec(6),
                  DateText(15, 6, 24) \o <<19>> \o Dec(1),
                  <<17, 19, 6, 19, 2, 4>>, <<1, 5, 19, 19, 2, 4>>,
                  DateText(15, 6, 2024), <<16, 1, 19, 6, 19, 2, 4>>}}

Levels(l) == [i \in 1..11 |-> Dec(l)]

RhythmCalls ==
    {[op |-> "set_rhythm_mode", style |-> style, levels |-> levels] :
        style \in {Dec(0), Dec(4), Dec(5), <<17>>},
        levels \in {Levels(0), Levels(15), [Levels(7) EXCEPT ![3] = Dec(16)],
                    [Levels(7) EXCEPT ![11] = <<17>>],
                    [i \in 1..11 |-> Dec(i)]}}
    \cup
    {[op |-> "set_rhythm_mode_2", style |-> Dec(st), t |-> Dec(t)] :
        st \in {0, 1, 2}, t \in {-1, 0, 7, 8}}

TimeCalls ==
    {[op |-> "set_time", hour |-> hour, minute |-> minute, second |-> second,
      now |-> now] :
        hour \in {NoArg, Dec(0), Dec(23), Dec(24)},
        minute \in {NoArg, Dec(59), Dec(60)},
        second \in {Dec(0), Dec(59), <<17>>}, now \in CmdNow}

ValueCalls ==
    {[op |-> "set_fun_mode", flag |-> flag] :
        flag \in {"<True>", "<False>", "YES", "0", "on"}}
    \cup
    {[op |-> op, value |-> value] :
        op \in {"set_orientation", "set_brightness", "set_speed",
                "delete_screen"},
        value \in {Dec(-1), Dec(0), Dec(3), Dec(4), Dec(50), Dec(100),
                   Dec(101), Dec(255), Dec(256), Dec(4096), <<17>>}}
    \cup
    {[op |-> op] : op \in {"clear", "led_off", "led_on"}}

PixelCalls ==
    {[op |-> "set_pixel", x |-> Dec(x), y |-> Dec(y), color |-> color] :
        x \in {-1, 0, 31, 255, 256, 4096}, y \in {0, 15, 256},
        color \in {ffffff, <<0, 15, 0>>, <<15, 15, 0, 0, 15, 15, 8, 0>>,
                   <<17, 17, 17, 17, 17, 17>>}}

\* the texts of at most n characters, as the answers for their characters
Rastered(glyphs, n) == UNION {[1..k -> glyphs] : k \in 0..n}

\* a hex text of n digits
HexPattern(n) == [i \in 1..n |-> (5 * i) % 16]

RasterError == [exc |-> "RenderError", hex |-> <<>>, width |-> 0]

Raster(bytes, width) ==
    [exc |-> "none", hex |-> HexPattern(2 * bytes), width |-> width]

\* answers of the rasterizer for a character of the legacy text: a bitmap of
\* 2 * matrix_height bytes, an empty one, a shorter one, an exception
LegacyGlyphs(matrix_height) ==
    {Raster(2 * matrix_height, matrix_height \div 2), Raster(0, 0),
     Raster(2 * matrix_height - 1, 1), RasterError}

SendTextCalls ==
    UNION {
      {[op |-> "send_text",
        a |-> [rainbow_mode |-> Dec(9), animation |-> Dec(animation),
               save_slot |-> Dec(save_slot), speed |-> Dec(80),
               matrix_height |-> Dec(matrix_height), color |-> ffffff],
        rastered |-> rastered, crc |-> <<12, 11, 15, 4, 3, 9, 2, 6>>] :
          animation \in {0, 3, 4, 7, 8}, save_slot \in {1, 11},
          rastered \in Rastered(LegacyGlyphs(matrix_height), MaxTextLen)} :
      matrix_height \in {1, 16, 129}}

\* answers of the rasterizer for a character of a text packet of height 16
PacketGlyphs == {Raster(16, 8), Raster(32, 12), Raster(17, 8), RasterError}

Text2Calls ==
    {[op |-> op,
      kwargs |-> [animation |-> Dec(animation), save_slot |-> Dec(save_slot),
                  speed |-> Dec(80), matrix_height |-> Dec(matrix_height),
                  color |-> color, bg_color |-> <<8, 15, 15, 15, 3, 4>>],
      rastered |-> rastered, crc32 |-> crc32] :
        op \in {"send_text1", "send_text2"}, animation \in {1, 256},
        save_slot \in {101, 256}, matrix_height \in {16, 17, 48},
        color \in {ffffff, <<0, 15, 0>>},
        rastered \in Rastered(PacketGlyphs, MaxTextLen),
        crc32 \in {0, 2018915346}}

InitCmd ==
    /\ \/ call \in ClockCalls
       \/ call \in RhythmCalls
       \/ call \in TimeCalls
       \/ call \in ValueCalls
       \/ call \in PixelCalls
       \/ call \in SendTextCalls
       \/ call \in Text2Calls
    /\ ret = Raise("pending")
    /\ ctor = [led_type |-> 0, color |-> ffffff,
               bg_color |-> <<0, 0, 0, 0, 0, 0>>]
    /\ pkt = text_packet_init(0, 0, 80, 0, ctor.color, 0, ctor.bg_color, 0, 0)
    /\ pre = pkt
    /\ log = <<>>
    /\ ncalls = 0

Pending(op) == call.op = op /\ ret.exc = "pending"

Returns(r) == ret' = r /\ UNCHANGED <<pkt, ctor, call, pre, log, ncalls>>

SetClockMode ==
    /\ Pending("set_clock_mode")
    /\ Returns(set_clock_mode(call.style, call.date, call.show_date,
                              call.format_24, call.now))

SetRhythmMode ==
    /\ Pending("set_rhythm_mode")
    /\ Returns(set_rhythm_mode(call.style, call.levels))

SetRhythmMode2 ==
    /\ Pending("set_rhythm_mode_2")
    /\ Returns(set_rhythm_mode_2(call.style, call.t))

SetTime ==
    /\ Pending("set_time")
    /\ Returns(set_time(call.hour, call.minute, call.second, call.now))

SetFunMode == Pending("set_fun_mode") /\ Returns(set_fun_mode(call.flag))

SetOrientation ==
    Pending("set_orientation") /\ Returns(set_orientation(call.value))

Clear == Pending("clear") /\ Returns(clear)

SetBrightness ==
    Pending("set_brightness") /\ Returns(set_brightness(call.value))

SetSpeed == Pending("set_speed") /\ Returns(set_speed(call.value))

SetPixel ==
    Pending("set_pixel") /\ Returns(set_pixel(call.x, call.y, call.color))

LedOff == Pending("led_off") /\ Returns(led_off)

LedOn == Pending("led_on") /\ Returns(led_on)

DeleteScreen == Pending("delete_screen") /\ Returns(delete_screen(call.value))

\* log becomes the answers char_to_hex gave, one for each time it was called
SendText ==
    /\ Pending("send_text")
    /\ ret' = send_text(call.a, call.rastered, call.crc)
    /\ log' = SubSeq(call.rastered, 1, send_text_calls(call.a, call.rastered))
    /\ UNCHANGED <<pkt, ctor, call, pre, ncalls>>

SendText1 ==
    /\ Pending("send_text1")
    /\ Returns(send_text1(call.kwargs, call.rastered, call.crc32))

SendText2 ==
    /\ Pending("send_text2")
    /\ Returns(send_text2(call.kwargs, call.rastered, call.crc32))

NextCmd ==
    \/ SetClockMode \/ SetRhythmMode \/ SetRhythmMode2 \/ SetTime
    \/ SetFunMode \/ SetOrientation \/ Clear \/ SetBrightness \/ SetSpeed
    \/ SetPixel \/ LedOff \/ LedOn \/ DeleteScreen
    \/ SendText \/ SendText1 \/ SendText2

SpecCmd == InitCmd /\ [][NextCmd]_vars

----------------------------------------------------------------------------
(* Claims on the command builders, under SpecCmd *)

Returned == ret.exc = "none"

\* C5: in a command returned by send_text1 or send_text2 the first two
\* bytes, little-endian, are the length of the whole buffer, the four bytes
\* at offset 5 are 4 + 4 + 2 + len(body), body being the serialized packet
\* of the text's frames at offset 15, and the bytes between are the ones
\* written before the size was patched in: 00 01 00, the checksum, the save
\* slot.
C5_Text2Sizes ==
    call.op \in {"send_text1", "send_text2"} /\ Returned =>
        LET b == ret.val
            body == SubSeq(b, 16, Len(b))
        IN /\ Len(b) >= 15 + 14
           /\ from_bytes(SubSeq(b, 1, 2)) = Len(b)
           /\ from_bytes(SubSeq(b, 6, 9)) = 4 + 4 + 2 + Len(body)
           /\ SubSeq(b, 3, 5) = <<0, 1, 0>>
           /\ from_bytes(SubSeq(b, 10, 13)) = call.crc32
           /\ SubSeq(b, 14, 15) = <<0, DecValue(call.kwargs.save_slot)>>
           /\ from_bytes(SubSeq(body, 1, 2)) = Len(call.rastered)
           /\ LET p == ParseFrames(SubSeq(body, 15, Len(body))) IN
              p.ok /\ Len(p.frames) = Len(call.rastered)

C5_Witness ==
    /\ call.op = "send_text1"
    /\ Returned
    /\ Len(call.rastered) = 2
    /\ call.rastered[1] # call.rastered[2]
    /\ call.crc32 > 0

\* the commands without a checksum
SimpleOps ==
    {"set_clock_mode", "set_rhythm_mode", "set_rhythm_mode_2", "set_time",
     "set_fun_mode", "set_orientation", "clear", "set_brightness",
     "set_speed", "set_pixel", "led_off", "led_on", "delete_screen"}

\* C6: the first two bytes of every simple command returned, little-endian,
\* are the byte length of the command.
C6_DeclaredLength ==
    call.op \in SimpleOps /\ Returned =>
        from_bytes(SubSeq(ret.val, 1, 2)) = Len(ret.val)

\* C7: in a legacy text command returned by send_text the first length field
\* is the byte length of the command and the second, at offset 5, the byte
\* length of the checksummed body, whatever bitmaps the rasterizer gave.
C7_LegacyLengths ==
    call.op = "send_text" /\ Returned =>
        LET b == ret.val
            n == Len(call.rastered)
            gap == 6 + 2 * DecValue(call.a.matrix_height)
        IN /\ from_bytes(SubSeq(b, 1, 2)) = HEADER_1_MG + n * gap
           /\ from_bytes(SubSeq(b, 6, 7)) = HEADER_3_MG + n * gap
           /\ from_bytes(SubSeq(b, 1, 2)) = Len(b)
           /\ from_bytes(SubSeq(b, 6, 7)) = Len(b) - 9 - 4 - 2

\* day of the week, Monday 1 to Sunday 7, of day d of month m of the year
\* 2000 + y, counted from Saturday 1 January 2000
DayOfWeek2000(d, m, y) ==
    LET leap == y % 4 = 0
        before == [k \in 1..12 |->
                     CASE k = 1 -> 0 [] k = 2 -> 31
                       [] OTHER -> 59 + (IF leap THEN 1 ELSE 0)
                                      + (306 * (k - 3) + 5) \div 10]
        days == 365 * y + (y + 3) \div 4 + before[m] + d - 1
    IN ((5 + days) % 7) + 1

\* d/m/y names a day of the calendar, y being a year of two digits
RealDay(d, m, y) ==
    /\ y \in 0..99
    /\ m \in 1..12
    /\ d >= 1
    /\ d <= (CASE m = 2 -> (IF y % 4 = 0 THEN 29 ELSE 28)
               [] m \in {4, 6, 9, 11} -> 30
               [] OTHER -> 31)

\* C10: set_clock_mode with a style in 0..8 and a date "d/m/y" of the
\* calendar returns 0b000601, style, format24, showDate, year, month, day
\* and the day of the week of that date.
C10_ClockModeDate ==
    /\ call.op = "set_clock_mode"
    /\ ret.exc # "pending"
    /\ call.dmy # <<>>
    /\ call.st \in 0..8
    /\ RealDay(call.dmy[1], call.dmy[2], call.dmy[3])
    => ret = Ok(<<11, 0, 6, 1, call.st, IF call.f24 THEN 1 ELSE 0,
                  IF call.sd THEN 1 ELSE 0, call.dmy[3], call.dmy[2],
                  call.dmy[1],
                  DayOfWeek2000(call.dmy[1], call.dmy[2], call.dmy[3])>>)

\* C11: send_text with animation 3 or 4 raises and returns no command,
\* whatever the other arguments and the answers of the rasterizer, and it
\* raises before char_to_hex was called for any character.
C11_AnimationRejected ==
    /\ call.op = "send_text"
    /\ ret.exc # "pending"
    /\ IsDec(call.a.animation)
    /\ DecValue(call.a.animation) \in {3, 4}
    => ~Returned /\ log = <<>>

\* animation 3 with every other argument valid and a text of two characters
\* the rasterizer has a bitmap for
C11_Witness ==
    /\ call.op = "send_text"
    /\ ret.exc = "ValueError"
    /\ log = <<>>
    /\ DecValue(call.a.animation) = 3
    /\ DecValue(call.a.save_slot) = 1
    /\ DecValue(call.a.matrix_height) = 16
    /\ Len(call.rastered) = 2
    /\ \A i \in 1..2 : call.rastered[i] = Raster(32, 8)

====
